---- MODULE Spec2Model ----
(***************************************************************************)
(* Model of the ChatClient component (src/next.config.mjs, lines 15-233):  *)
(* React state of the component, the in-flight engine loads, the in-flight *)
(* generation requests and the handlers the UI can invoke.                 *)
(*                                                                         *)
(* Conventions.                                                            *)
(*  - Text is a sequence of one-character strings, so that trim() and      *)
(*    string concatenation are computed, not assumed.                      *)
(*  - A handler invoked from the UI uses the closure of the latest render; *)
(*    renders are taken to follow every state update before the next UI    *)
(*    event.  The two places where the code uses an older closure are      *)
(*    modelled explicitly: the mount effect (deps [], first render) and    *)
(*    the continuation of send() after `await initEngine()`.               *)
(*  - JavaScript runs a continuation to completion: while a request is     *)
(*    between its catch/try-exit and its finally block no UI event runs.   *)
(*  - The engine (CreateMLCEngine, chat.completions.create and the stream) *)
(*    is an external collaborator: every outcome it can produce is a       *)
(*    nondeterministic choice.                                             *)
(***************************************************************************)
EXTENDS Integers, Sequences, FiniteSets, TLC

\* ---------------------------------------------------------------- bounds
MaxTurns == 2      \* user/assistant pairs in the history
MaxChunks == 2     \* chunks one stream delivers
MaxText == 2       \* characters of assistant text in the history
MaxLoads == 2      \* CreateMLCEngine calls in flight at once

\* ---------------------------------------------------------------- inputs
\* values the user can type into the message box
InputTexts == { <<>>, <<" ">>, <<" ", "h", " ">> }
\* values the user can type into the rules textarea
RuleTexts == { <<"r">>, <<" ", "r", " ">> }
\* chunks the engine stream can deliver
ChunkValues ==
    { [kind |-> "noChoices", content |-> <<>>],
      [kind |-> "text", content |-> <<>>],
      [kind |-> "text", content |-> <<"x">>],
      [kind |-> "text", content |-> <<"y">>] }
\* names of the errors the engine can raise
ErrorNames == { "AbortError", "Error" }

DEFAULT_MODEL == "Llama-3.2-1B-Instruct-q4f16_1-MLC"
\* options of the model selector
availableModels ==
    { "Llama-3.2-1B-Instruct-q4f16_1-MLC",
      "Llama-3.1-8B-Instruct-q4f16_1-MLC",
      "Phi-3-mini-4k-instruct-q4f16_1-MLC" }

VARIABLES
    mounted,        \* the mount effect has run
    engine,         \* useState engine: NoEngine or Engine
    engineModel,    \* the model the engine held by `engine` was created with
    model,          \* usePersistentState "model"
    temperature,    \* usePersistentState "temperature": a JSON value
    maxTokens,      \* usePersistentState "maxTokens": a JSON value
    storage,        \* localStorage: key -> stored text, or Missing
    loadingModel,   \* useState loadingModel
    loads,          \* initEngine calls that have not returned, in call order
    userRules,      \* usePersistentState "userRules"
    stripDefaults,  \* usePersistentState "stripDefaults"
    messages,       \* useState messages
    input,          \* useState input
    generating,     \* useState generating
    abortRef,       \* abortRef.current: NoController, StaleController, or the index
                    \* in reqs of the run whose AbortController it holds
    reqs            \* run() calls that have not returned, in call order

\* the persisted sampling parameters and their backing store
cfgVars == << temperature, maxTokens, storage >>

\* the chat, the engine and the model selector
chatVars == << mounted, engine, engineModel, model, loadingModel, loads, userRules,
               stripDefaults, messages, input, generating, abortRef, reqs >>

vars == << chatVars, cfgVars >>

NoEngine == "null"
Engine == "engine"
NoController == 0
\* the AbortController of a run that has returned
StaleController == -1
\* no send() awaits the initEngine call
NoWaiter == <<>>

\* ------------------------------------------------------- pure functions
RECURSIVE TrimStart(_)
TrimStart(s) ==
    IF s = <<>> THEN s
    ELSE IF Head(s) = " " THEN TrimStart(Tail(s)) ELSE s

RECURSIVE TrimEnd(_)
TrimEnd(s) ==
    IF s = <<>> THEN s
    ELSE IF s[Len(s)] = " " THEN TrimEnd(SubSeq(s, 1, Len(s) - 1)) ELSE s

\* String.prototype.trim
Trim(s) == TrimEnd(TrimStart(s))

\* ---------------------------------------------------- persisted configuration
\* JSON values.  A number is held in tenths, so that 0.6 and 1.2 are integers.
JNum(n) == [t |-> "number", tenths |-> n]
JNaN == [t |-> "NaN"]
JNull == [t |-> "null"]
JBool(b) == [t |-> "boolean", b |-> b]
JStr(cs) == [t |-> "string", s |-> cs]

Digits == << "0", "1", "2", "3", "4", "5", "6", "7", "8", "9" >>
IsDigit(c) == \E d \in 1..10 : Digits[d] = c
DigitValue(c) == (CHOOSE d \in 1..10 : Digits[d] = c) - 1
AllDigits(cs) == cs # <<>> /\ \A k \in DOMAIN cs : IsDigit(cs[k])

RECURSIVE NatOf(_)
\* the value of a sequence of decimal digits
NatOf(cs) ==
    IF cs = <<>> THEN 0
    ELSE NatOf(SubSeq(cs, 1, Len(cs) - 1)) * 10 + DigitValue(cs[Len(cs)])

RECURSIVE DigitsOf(_)
\* the decimal digits of a natural number
DigitsOf(n) ==
    IF n < 10 THEN << Digits[n + 1] >>
    ELSE DigitsOf(n \div 10) \o << Digits[(n % 10) + 1] >>

\* a decimal numeral: digits, optionally followed by a point and one digit
IsNumberText(cs) ==
    \/ AllDigits(cs)
    \/ /\ Len(cs) >= 3
       /\ cs[Len(cs) - 1] = "."
       /\ AllDigits(SubSeq(cs, 1, Len(cs) - 2))
       /\ IsDigit(cs[Len(cs)])

\* the value, in tenths, of a decimal numeral
TenthsOf(cs) ==
    IF AllDigits(cs) THEN NatOf(cs) * 10
    ELSE NatOf(SubSeq(cs, 1, Len(cs) - 2)) * 10 + DigitValue(cs[Len(cs)])

RECURSIVE LeadingDigits(_)
\* the longest prefix of digits
LeadingDigits(cs) ==
    IF cs = <<>> \/ ~IsDigit(Head(cs)) THEN <<>>
    ELSE << Head(cs) >> \o LeadingDigits(Tail(cs))

\* parseFloat of the value of a number input (a decimal numeral, or "")
ParseFloat(text) == IF IsNumberText(text) THEN JNum(TenthsOf(text)) ELSE JNaN

\* parseInt(text, 10): the integer prefix
ParseInt(text) ==
    IF LeadingDigits(text) = <<>> THEN JNaN ELSE JNum(NatOf(LeadingDigits(text)) * 10)

\* e.target.value || "0"
OrZero(text) == IF text = <<>> THEN << "0" >> ELSE text

\* JSON.parse: the value, or ok = FALSE when it throws
JSONParse(raw) ==
    IF raw = << "n", "u", "l", "l" >> THEN [ok |-> TRUE, value |-> JNull]
    ELSE IF raw = << "t", "r", "u", "e" >> THEN [ok |-> TRUE, value |-> JBool(TRUE)]
    ELSE IF raw = << "f", "a", "l", "s", "e" >> THEN [ok |-> TRUE, value |-> JBool(FALSE)]
    ELSE IF IsNumberText(raw) THEN [ok |-> TRUE, value |-> JNum(TenthsOf(raw))]
    ELSE IF /\ Len(raw) >= 2
            /\ raw[1] = "\"" /\ raw[Len(raw)] = "\""
            /\ \A k \in 2..(Len(raw) - 1) : raw[k] # "\""
         THEN [ok |-> TRUE, value |-> JStr(SubSeq(raw, 2, Len(raw) - 1))]
    ELSE [ok |-> FALSE]

\* JSON.stringify: NaN is written as null
JSONStringify(v) ==
    IF v.t = "number"
    THEN IF v.tenths % 10 = 0
         THEN DigitsOf(v.tenths \div 10)
         ELSE DigitsOf(v.tenths \div 10) \o << ".", Digits[(v.tenths % 10) + 1] >>
    ELSE IF v.t = "boolean"
    THEN (IF v.b THEN << "t", "r", "u", "e" >> ELSE << "f", "a", "l", "s", "e" >>)
    ELSE IF v.t = "string" THEN << "\"" >> \o v.s \o << "\"" >>
    ELSE << "n", "u", "l", "l" >>

\* localStorage.getItem found nothing
NoEntry == <<>>
\* a stored text
Entry(raw) == << raw >>

\* the useState initializer of usePersistentState: raw ? JSON.parse(raw) : initial,
\* and initial when JSON.parse throws
LoadState(entry, initial) ==
    IF entry = NoEntry \/ entry[1] = <<>> THEN initial
    ELSE IF JSONParse(entry[1]).ok THEN JSONParse(entry[1]).value
    ELSE initial

ConfigKeys == { "temperature", "maxTokens" }
DefaultTemperature == JNum(6)
DefaultMaxTokens == JNum(5120)

\* texts a persisted backing can hold for a key
BackingTexts ==
    { << "{" >>,
      << "1", ".", "2" >>,
      << "1", "0", "0" >>,
      << "n", "u", "l", "l" >>,
      << "t", "r", "u", "e" >>,
      << "\"", "a", "\"" >> }
\* values of the temperature input
TemperatureTexts == { <<>>, << "1", ".", "2" >>, << "3" >> }
\* values of the max-tokens input
MaxTokensTexts == { <<>>, << "6", "4" >>, << "1", ".", "5" >> }

\* useMemo systemMessage
systemMessage == [role |-> "system", content |-> Trim(userRules)]

\* a plausible slip: the system message is pushed whatever stripDefaults is
ComposeHistoryAlwaysSystem(strip, sys, closureMessages, userMsg) ==
    <<sys>> \o closureMessages \o <<userMsg>>

\* `history` built by run(): optional system message, the closure's messages, userMsg
ComposeHistory(strip, sys, closureMessages, userMsg) ==
    (IF strip THEN <<sys>> ELSE <<>>) \o closureMessages \o <<userMsg>>

\* chunk.choices?.[0]?.delta?.content ?? ""
DeltaOf(chunk) == IF chunk.kind = "text" THEN chunk.content ELSE <<>>

\* a plausible slip: the delta is put in front of the content
MergeDeltaPrepend(prev, delta) ==
    IF prev # <<>> /\ prev[Len(prev)].role = "assistant"
    THEN [prev EXCEPT ![Len(prev)] =
             [role |-> "assistant", content |-> delta \o prev[Len(prev)].content]]
    ELSE prev

\* a plausible slip: the delta goes to the first assistant message, not the last
MergeDeltaFirstAssistant(prev, delta) ==
    IF Len(prev) >= 2 /\ prev[2].role = "assistant"
    THEN [prev EXCEPT ![2] = [role |-> "assistant", content |-> prev[2].content \o delta]]
    ELSE prev

\* the setMessages updater of the chunk loop
MergeDelta(prev, delta) ==
    IF prev # <<>> /\ prev[Len(prev)].role = "assistant"
    THEN [prev EXCEPT ![Len(prev)] =
             [role |-> "assistant", content |-> prev[Len(prev)].content \o delta]]
    ELSE prev

\* body of one iteration of the for-await loop
ConsumeChunk(prev, chunk) ==
    IF DeltaOf(chunk) = <<>> THEN prev ELSE MergeDelta(prev, DeltaOf(chunk))

\* a plausible slip: the catch block never alerts
CatchAlertsNever(name) == 0

\* a plausible slip: the catch block alerts whatever the error is
CatchAlertsAlways(name) == 1

\* catch block: number of alerts raised for an error of the given name
CatchAlerts(name) == IF name # "AbortError" THEN 1 ELSE 0

\* a plausible slip: setGenerating(false) at the end of the try block, not in finally
FinallyGeneratingOnSuccess(phase) == phase # "Completed"

\* finally block: value given to `generating` when run() leaves in the given phase
FinallyGenerating(phase) == FALSE

\* a plausible slip: the input and the Send button stay usable while generating
InputNeverDisabled == FALSE

\* disabled={generating} of the input, and the Send/Stop button switch
InputDisabled == generating

\* a plausible slip: the Clear button stays usable while generating
ClearNeverDisabled == FALSE

\* disabled={generating} of the Clear button
ClearDisabled == generating

\* guard of initEngine evaluated on a closure
InitEngineReturnsEarly(closureEngine, closureLoading) ==
    closureEngine # NoEngine \/ closureLoading

\* ------------------------------------------------------------ task state
ActivePhases == {"Requested", "Streaming"}
TerminalPhases == {"Completed", "Cancelled", "Failed"}

\* a continuation between leaving its try block and running its finally block:
\* it runs to completion before any UI event is handled
Settling ==
    \/ \E i \in DOMAIN reqs : reqs[i].phase \in TerminalPhases
    \/ \E id \in DOMAIN loads : loads[id].state # "loading"

\* phase run() is left in when the awaited promise rejects with `name`
PhaseOfError(name) == IF name = "AbortError" THEN "Cancelled" ELSE "Failed"

\* errors the engine can raise for run i: AbortError only once its signal is aborted
RaisableErrors(i) == IF reqs[i].aborted THEN ErrorNames ELSE ErrorNames \ {"AbortError"}

RECURSIVE AssistantText(_)
\* number of characters of assistant text in a history
AssistantText(msgs) ==
    IF msgs = <<>> THEN 0
    ELSE (IF Head(msgs).role = "assistant" THEN Len(Head(msgs).content) ELSE 0)
         + AssistantText(Tail(msgs))

\* an initEngine call past its guard: setLoadingModel(true); await CreateMLCEngine
NewLoad(waiter) ==
    [state |-> "loading", model |-> model, waiter |-> waiter, alerts |-> 0]

RemoveAt(s, i) == SubSeq(s, 1, i - 1) \o SubSeq(s, i + 1, Len(s))

\* abortRef.current once run i has returned and left reqs
AbortRefAfterReturn(ref, i) ==
    IF ref = i THEN StaleController
    ELSE IF ref > i THEN ref - 1 ELSE ref

ChatInit ==
    /\ mounted = FALSE
    /\ engine = NoEngine
    /\ engineModel = NoEngine
    /\ model = DEFAULT_MODEL
    /\ loadingModel = FALSE
    /\ loads = <<>>
    /\ userRules \in RuleTexts
    /\ stripDefaults \in BOOLEAN
    /\ messages = <<>>
    /\ input = <<>>
    /\ generating = FALSE
    /\ abortRef = NoController
    /\ reqs = <<>>

\* a session constructed over an empty backing store
Init ==
    /\ ChatInit
    /\ storage = [k \in ConfigKeys |-> NoEntry]
    /\ temperature = LoadState(storage["temperature"], DefaultTemperature)
    /\ maxTokens = LoadState(storage["maxTokens"], DefaultMaxTokens)

\* the effect of usePersistentState for one key, run after a render in which the
\* state of the key is new: localStorage.setItem(key, JSON.stringify(state)).
\* A setItem that throws (ok = FALSE) is swallowed and leaves the store as it was.
PersistEffect(store, key, state, ok) ==
    IF ok THEN [store EXCEPT ![key] = Entry(JSONStringify(state))] ELSE store

\* the store after the effects of both keys have run on mount
MountEffects(store, okT, okM) ==
    PersistEffect(
        PersistEffect(store, "temperature", LoadState(store["temperature"], DefaultTemperature), okT),
        "maxTokens", LoadState(store["maxTokens"], DefaultMaxTokens), okM)

\* a session constructed over any persisted backing
ConfigInit ==
    /\ ChatInit
    /\ \E backing \in [ConfigKeys -> {NoEntry} \cup { Entry(raw) : raw \in BackingTexts }] :
       \E okT \in BOOLEAN, okM \in BOOLEAN :
          /\ temperature = LoadState(backing["temperature"], DefaultTemperature)
          /\ maxTokens = LoadState(backing["maxTokens"], DefaultMaxTokens)
          /\ storage = MountEffects(backing, okT, okM)

\* ------------------------------------------------------------ engine load
\* useEffect(() => { initEngine() }, []): the effect of the first render.  With
\* reactStrictMode the development build runs it twice; both runs call the
\* initEngine of the first render, whose closure holds the initial engine and
\* loadingModel.
MountEffect(strict) ==
    /\ ~mounted
    /\ mounted' = TRUE
    /\ IF InitEngineReturnsEarly(engine, loadingModel)
       THEN UNCHANGED << loads, loadingModel >>
       ELSE /\ loads' = loads \o (IF strict
                                  THEN << NewLoad(NoWaiter), NewLoad(NoWaiter) >>
                                  ELSE << NewLoad(NoWaiter) >>)
            /\ loadingModel' = TRUE
    /\ UNCHANGED << engine, userRules, stripDefaults, messages, input,
                    generating, abortRef, reqs >>
    /\ UNCHANGED << engineModel, model, cfgVars >>

\* Init button: disabled={!!engine || loadingModel}, onClick={initEngine}
ClickInit ==
    /\ mounted /\ ~Settling
    /\ ~(engine # NoEngine \/ loadingModel)
    /\ ~InitEngineReturnsEarly(engine, loadingModel)
    /\ Len(loads) < MaxLoads
    /\ loads' = Append(loads, NewLoad(NoWaiter))
    /\ loadingModel' = TRUE
    /\ UNCHANGED << mounted, engine, userRules, stripDefaults, messages, input,
                    generating, abortRef, reqs >>
    /\ UNCHANGED << engineModel, model, cfgVars >>

\* CreateMLCEngine resolves: setEngine(e)
LoadOk(id) ==
    /\ ~Settling
    /\ loads[id].state = "loading"
    /\ loads' = [loads EXCEPT ![id].state = "ready"]
    /\ engine' = Engine
    /\ engineModel' = loads[id].model
    /\ UNCHANGED << mounted, loadingModel, userRules, stripDefaults, messages, input,
                    generating, abortRef, reqs >>
    /\ UNCHANGED << model, cfgVars >>

\* CreateMLCEngine rejects: console.error, alert
LoadFail(id) ==
    /\ ~Settling
    /\ loads[id].state = "loading"
    /\ loads' = [loads EXCEPT ![id].state = "failed", ![id].alerts = @ + 1]
    /\ UNCHANGED << mounted, engine, loadingModel, userRules, stripDefaults, messages,
                    input, generating, abortRef, reqs >>
    /\ UNCHANGED << engineModel, model, cfgVars >>

\* finally { setLoadingModel(false) }: initEngine returns.  A send() awaiting it
\* resumes at `if (!engine) return` with the engine of its own closure, which
\* is null (it took the branch of line 93), so it returns.
InitFinally(id) ==
    /\ loads[id].state # "loading"
    /\ loads' = RemoveAt(loads, id)
    /\ loadingModel' = FALSE
    /\ UNCHANGED << mounted, engine, userRules, stripDefaults, messages, input,
                    generating, abortRef, reqs >>
    /\ UNCHANGED << engineModel, model, cfgVars >>

\* ------------------------------------------------------------------- send
\* a plausible slip: only the user message is appended, no placeholder
StartRunNoPlaceholder(content) ==
    LET userMsg == [role |-> "user", content |-> content]
    IN  /\ generating' = TRUE
        /\ messages' = Append(messages, userMsg)
        /\ reqs' = Append(reqs,
               [phase |-> "Requested",
                history |-> ComposeHistory(stripDefaults, systemMessage, messages, userMsg),
                model |-> model,
                placeholder |-> Len(messages) + 2,
                aborted |-> FALSE,
                emitted |-> <<>>,
                alerts |-> 0])
        /\ abortRef' = Len(reqs) + 1

\* run(), up to its first await: setGenerating(true), append the user message and
\* the placeholder, compose the request, install a new AbortController.
StartRun(content) ==
    LET userMsg == [role |-> "user", content |-> content]
    IN  /\ generating' = TRUE
        /\ messages' = messages \o << userMsg, [role |-> "assistant", content |-> <<>>] >>
        /\ reqs' = Append(reqs,
               [phase |-> "Requested",
                history |-> ComposeHistory(stripDefaults, systemMessage, messages, userMsg),
                model |-> model,
                placeholder |-> Len(messages) + 2,
                aborted |-> FALSE,
                emitted |-> <<>>,
                alerts |-> 0])
        /\ abortRef' = Len(reqs) + 1

\* send(), invoked by Enter in the input (any text) or by the Send button.
Send ==
    /\ mounted /\ ~Settling
    /\ ~InputDisabled
    /\ IF engine = NoEngine
       THEN \* await initEngine(); if (!engine) return;
            /\ IF InitEngineReturnsEarly(engine, loadingModel)
               THEN UNCHANGED << loads, loadingModel >>
               ELSE /\ Len(loads) < MaxLoads
                    /\ loads' = Append(loads, NewLoad(<<input>>))
                    /\ loadingModel' = TRUE
            /\ UNCHANGED << messages, generating, abortRef, reqs >>
       ELSE /\ IF Trim(input) = <<>>
               THEN UNCHANGED << messages, generating, abortRef, reqs >>
               ELSE /\ Len(messages) < 2 * MaxTurns
                    /\ StartRun(Trim(input))
            /\ UNCHANGED << loads, loadingModel >>
    /\ UNCHANGED << mounted, engine, userRules, stripDefaults, input >>
    /\ UNCHANGED << engineModel, model, cfgVars >>

\* ------------------------------------------------------- engine and stream
\* engine.chat.completions.create takes the request and resolves with the stream
CreateOk(i) ==
    /\ ~Settling
    /\ reqs[i].phase = "Requested"
    /\ reqs' = [reqs EXCEPT ![i].phase = "Streaming", ![i].history = <<>>]
    /\ UNCHANGED << mounted, engine, loadingModel, loads, userRules, stripDefaults,
                    messages, input, generating, abortRef >>
    /\ UNCHANGED << engineModel, model, cfgVars >>

\* one iteration of the for-await loop: the stream delivers a chunk
StreamChunk(i, chunk) ==
    /\ ~Settling
    /\ reqs[i].phase = "Streaming"
    /\ Len(reqs[i].emitted) < MaxChunks
    /\ AssistantText(messages) + Len(DeltaOf(chunk)) <= MaxText
    /\ reqs' = [reqs EXCEPT ![i].emitted = Append(@, chunk)]
    /\ messages' = ConsumeChunk(messages, chunk)
    /\ UNCHANGED << mounted, engine, loadingModel, loads, userRules, stripDefaults,
                    input, generating, abortRef >>
    /\ UNCHANGED << engineModel, model, cfgVars >>

\* the stream ends: the for-await loop and the try block are left normally
StreamDone(i) ==
    /\ ~Settling
    /\ reqs[i].phase = "Streaming"
    /\ reqs' = [reqs EXCEPT ![i].phase = "Completed"]
    /\ UNCHANGED << mounted, engine, loadingModel, loads, userRules, stripDefaults,
                    messages, input, generating, abortRef >>
    /\ UNCHANGED << engineModel, model, cfgVars >>

\* create() or the stream rejects: the catch block runs
StreamThrow(i, name) ==
    /\ ~Settling
    /\ reqs[i].phase \in ActivePhases
    /\ name \in RaisableErrors(i)
    /\ reqs' = [reqs EXCEPT ![i].phase = PhaseOfError(name),
                            ![i].history = <<>>,
                            ![i].alerts = @ + CatchAlerts(name)]
    /\ UNCHANGED << mounted, engine, loadingModel, loads, userRules, stripDefaults,
                    messages, input, generating, abortRef >>
    /\ UNCHANGED << engineModel, model, cfgVars >>

\* finally { setGenerating(false) }: run() returns, send() continues with setInput("")
RunFinally(i) ==
    /\ reqs[i].phase \in TerminalPhases
    /\ reqs' = RemoveAt(reqs, i)
    /\ abortRef' = AbortRefAfterReturn(abortRef, i)
    /\ generating' = FinallyGenerating(reqs[i].phase)
    /\ input' = <<>>
    /\ UNCHANGED << mounted, engine, loadingModel, loads, userRules, stripDefaults,
                    messages >>
    /\ UNCHANGED << engineModel, model, cfgVars >>

\* ------------------------------------------------------------ other handlers
\* Stop button, rendered while generating: abortRef.current?.abort(); abortRef.current = null
Stop ==
    /\ mounted /\ ~Settling
    /\ generating
    /\ abortRef # NoController
    /\ reqs' = [i \in DOMAIN reqs |->
                   IF i = abortRef THEN [reqs[i] EXCEPT !.aborted = TRUE] ELSE reqs[i]]
    /\ abortRef' = NoController
    /\ UNCHANGED << mounted, engine, loadingModel, loads, userRules, stripDefaults,
                    messages, input, generating >>
    /\ UNCHANGED << engineModel, model, cfgVars >>

\* Clear button: disabled={generating}
ResetChat ==
    /\ mounted /\ ~Settling
    /\ ~ClearDisabled
    /\ messages # <<>>
    /\ messages' = <<>>
    /\ UNCHANGED << mounted, engine, loadingModel, loads, userRules, stripDefaults,
                    input, generating, abortRef, reqs >>
    /\ UNCHANGED << engineModel, model, cfgVars >>

\* onChange of the input: disabled={generating}
SetInput(text) ==
    /\ mounted /\ ~Settling
    /\ ~InputDisabled
    /\ text # input
    /\ input' = text
    /\ UNCHANGED << mounted, engine, loadingModel, loads, userRules, stripDefaults,
                    messages, generating, abortRef, reqs >>
    /\ UNCHANGED << engineModel, model, cfgVars >>

\* onChange of the model selector: disabled={generating || loadingModel}
SetModel(m) ==
    /\ mounted /\ ~Settling
    /\ ~(generating \/ loadingModel)
    /\ m # model
    /\ model' = m
    /\ UNCHANGED << mounted, engine, engineModel, loadingModel, loads, userRules,
                    stripDefaults, messages, input, generating, abortRef, reqs >>
    /\ UNCHANGED cfgVars

\* onChange of the rules textarea
SetUserRules(text) ==
    /\ mounted /\ ~Settling
    /\ text # userRules
    /\ userRules' = text
    /\ UNCHANGED << mounted, engine, loadingModel, loads, stripDefaults,
                    messages, input, generating, abortRef, reqs >>
    /\ UNCHANGED << engineModel, model, cfgVars >>

\* onChange of the "strip defaults" checkbox
SetStripDefaults(checked) ==
    /\ mounted /\ ~Settling
    /\ checked # stripDefaults
    /\ stripDefaults' = checked
    /\ UNCHANGED << mounted, engine, loadingModel, loads, userRules,
                    messages, input, generating, abortRef, reqs >>
    /\ UNCHANGED << engineModel, model, cfgVars >>

Next ==
    \/ \E strict \in BOOLEAN : MountEffect(strict)
    \/ ClickInit
    \/ \E id \in DOMAIN loads : LoadOk(id)
    \/ \E id \in DOMAIN loads : LoadFail(id)
    \/ \E id \in DOMAIN loads : InitFinally(id)
    \/ Send
    \/ \E i \in DOMAIN reqs : CreateOk(i)
    \/ \E i \in DOMAIN reqs : \E chunk \in ChunkValues : StreamChunk(i, chunk)
    \/ \E i \in DOMAIN reqs : StreamDone(i)
    \/ \E i \in DOMAIN reqs : \E name \in ErrorNames : StreamThrow(i, name)
    \/ \E i \in DOMAIN reqs : RunFinally(i)
    \/ Stop
    \/ ResetChat
    \/ \E text \in InputTexts : SetInput(text)
    \/ \E text \in RuleTexts : SetUserRules(text)
    \/ \E checked \in BOOLEAN : SetStripDefaults(checked)

\* The chat with the model selector left at its initial value: the selected
\* model reaches the engine only as a parameter of CreateMLCEngine and of
\* completions.create.
Spec == Init /\ [][Next]_vars

\* the chat together with the model selector
NextWithSelector ==
    \/ Next
    \/ \E m \in availableModels : SetModel(m)

SelectorSpec == Init /\ [][NextWithSelector]_vars

\* ------------------------------------------------------ settings and storage
\* the state persisted under a key
StateOf(key) == IF key = "temperature" THEN temperature ELSE maxTokens

\* onChange of the temperature input: setTemperature(parseFloat(e.target.value)),
\* then the effect of the key.  An equal state brings no render and no effect.
SetTemperature(text, ok) ==
    /\ ParseFloat(text) # temperature
    /\ temperature' = ParseFloat(text)
    /\ storage' = PersistEffect(storage, "temperature", ParseFloat(text), ok)
    /\ UNCHANGED << maxTokens, chatVars >>

\* onChange of the max-tokens input: setMaxTokens(parseInt(e.target.value || "0", 10)),
\* then the effect of the key
SetMaxTokens(text, ok) ==
    /\ ParseInt(OrZero(text)) # maxTokens
    /\ maxTokens' = ParseInt(OrZero(text))
    /\ storage' = PersistEffect(storage, "maxTokens", ParseInt(OrZero(text)), ok)
    /\ UNCHANGED << temperature, chatVars >>

\* a fresh session is constructed over the same backing store: the useState
\* initializers read it, then the effects of both keys run
ReloadSession(okT, okM) ==
    /\ temperature' = LoadState(storage["temperature"], DefaultTemperature)
    /\ maxTokens' = LoadState(storage["maxTokens"], DefaultMaxTokens)
    /\ storage' = MountEffects(storage, okT, okM)
    /\ UNCHANGED chatVars

ConfigNext ==
    \/ \E text \in TemperatureTexts, ok \in BOOLEAN : SetTemperature(text, ok)
    \/ \E text \in MaxTokensTexts, ok \in BOOLEAN : SetMaxTokens(text, ok)
    \/ \E okT \in BOOLEAN, okM \in BOOLEAN : ReloadSession(okT, okM)

\* The persisted sampling parameters, with the chat left in its initial state:
\* they reach the chat only as parameters of completions.create.
ConfigSpec == ConfigInit /\ [][ConfigNext]_vars

\* A continuation that has left its try block runs its finally block: JavaScript
\* runs it to completion.
FairSpec ==
    /\ Spec
    /\ WF_vars(\E i \in DOMAIN reqs : RunFinally(i))
    /\ WF_vars(\E id \in DOMAIN loads : InitFinally(id))

TypeOK ==
    /\ mounted \in BOOLEAN
    /\ engine \in {NoEngine, Engine}
    /\ Len(loads) <= MaxLoads
    /\ generating \in BOOLEAN
    /\ Len(messages) <= 2 * MaxTurns

\* ------------------------------------------------------------------ claims
RECURSIVE ConcatDeltas(_)
\* d1 \o ... \o dn for the chunks of a stream, in arrival order
ConcatDeltas(chunks) ==
    IF chunks = <<>> THEN <<>>
    ELSE DeltaOf(Head(chunks)) \o ConcatDeltas(Tail(chunks))

\* the message at the position where run i appended its assistant placeholder
PlaceholderOf(i) == messages[reqs[i].placeholder]

\* run i still has its user message and its assistant message in the history, and
\* the assistant content is the concatenation of the deltas delivered so far
PairHolds(i) ==
    /\ reqs[i].placeholder <= Len(messages)
    /\ messages[reqs[i].placeholder - 1].role = "user"
    /\ PlaceholderOf(i).role = "assistant"
    /\ PlaceholderOf(i).content = ConcatDeltas(reqs[i].emitted)

\* C1: once the stream of a request has completed, the assistant placeholder that
\* request appended holds the concatenation of the deltas of all its chunks in
\* arrival order; a chunk whose delta is empty or missing changes no message.
C1_ContentIsConcatenation ==
    /\ [](\A i \in DOMAIN reqs : reqs[i].phase = "Completed" => PairHolds(i))
    /\ [][\A i \in DOMAIN reqs :
            (/\ Len(reqs') = Len(reqs)
             /\ Len(reqs'[i].emitted) = Len(reqs[i].emitted) + 1
             /\ DeltaOf(reqs'[i].emitted[Len(reqs'[i].emitted)]) = <<>>)
            => messages' = messages]_vars

\* a completed stream that delivered two different non-empty deltas
C1_Witness ==
    \E i \in DOMAIN reqs :
        /\ reqs[i].phase = "Completed"
        /\ PlaceholderOf(i).content = << "x", "y" >>

\* C2: at most one run is in flight, `generating` is set exactly while one is, and
\* while it is set no step changes the length of the history (no send is taken).
C2_SingleActiveRequest ==
    /\ [](Len(reqs) <= 1 /\ (generating <=> reqs # <<>>))
    /\ [][generating => Len(messages') = Len(messages)]_vars

\* a second request is streaming while the input still holds the text just sent
C2_Witness ==
    \E i \in DOMAIN reqs :
        /\ reqs[i].phase = "Streaming"
        /\ Trim(input) # <<>>
        /\ Len(messages) = 4

\* C3: once stop() has aborted a run, no step changes the history while that run
\* is still in its Requested/Streaming phase.
C3_NoMergeAfterCancel ==
    [][\A i \in DOMAIN reqs :
         (reqs[i].aborted /\ reqs[i].phase \in ActivePhases) => messages' = messages]_vars

\* the request composed for the engine by a send that starts from the current state
ExpectedRequest ==
    (IF stripDefaults
     THEN << [role |-> "system", content |-> Trim(userRules)] >>
     ELSE <<>>)
    \o messages
    \o << [role |-> "user", content |-> Trim(input)] >>

SystemPositions(h) == { k \in DOMAIN h : h[k].role = "system" }

\* C4: the request a send composes is the policy message (only when stripDefaults,
\* then exactly once and first, with the trimmed rules), the history as it was
\* before the send, then the new user message; the placeholder is not in it.
C4_OutboundRequest ==
    [][Len(reqs') = Len(reqs) + 1 =>
         LET h == reqs'[Len(reqs')].history
         IN  /\ h = ExpectedRequest
             /\ SystemPositions(h) = (IF stripDefaults THEN {1} ELSE {})
             /\ h[Len(h)].role = "user"
             /\ Len(h) < Len(messages') + (IF stripDefaults THEN 1 ELSE 0)]_vars

\* a request with the trimmed policy message, one earlier turn and the new message
C4_Witness ==
    \E i \in DOMAIN reqs :
        /\ reqs[i].phase = "Requested"
        /\ Len(reqs[i].history) = 4
        /\ reqs[i].history[1] = [role |-> "system", content |-> << "r" >>]
        /\ reqs[i].history[3].content # <<>>
        /\ userRules = << " ", "r", " " >>

\* the step in which the finally block of a run left in `phase` runs
FinallyOf(phase) ==
    /\ Len(reqs') < Len(reqs)
    /\ \E i \in DOMAIN reqs : reqs[i].phase = phase

\* a send() with non-blank text is accepted: it reaches run()
SendAccepted == mounted /\ ~Settling /\ ~InputDisabled /\ engine # NoEngine

\* C5: a run that failed with an error other than a cancellation keeps its user
\* message and the assistant content merged so far, has alerted exactly once (and
\* not before failing), and its finally block clears the slot without touching
\* the history, so that a following send is accepted.
C5_FailureKeepsPartial ==
    /\ [](\A i \in DOMAIN reqs :
            /\ reqs[i].phase = "Failed" => (PairHolds(i) /\ reqs[i].alerts = 1)
            /\ reqs[i].phase \in ActivePhases => reqs[i].alerts = 0)
    /\ [][FinallyOf("Failed") =>
            /\ messages' = messages
            /\ ~generating' /\ reqs' = <<>>
            /\ SendAccepted']_vars

\* a run that failed after a non-empty delta was merged
C5_Witness ==
    \E i \in DOMAIN reqs :
        /\ reqs[i].phase = "Failed"
        /\ reqs[i].emitted # <<>>
        /\ PlaceholderOf(i).content # <<>>

\* C6: when a load awaited by a send() with non-blank text succeeds, that send
\* appends the user message and the empty placeholder and starts generating.
C6_SendContinuesAfterLoad ==
    [][\A id \in DOMAIN loads :
         (/\ loads[id].state = "ready"
          /\ loads[id].waiter # NoWaiter
          /\ Trim(loads[id].waiter[1]) # <<>>
          /\ Len(loads') < Len(loads))
         => /\ generating'
            /\ messages' = messages \o
                 << [role |-> "user", content |-> Trim(loads[id].waiter[1])],
                    [role |-> "assistant", content |-> <<>>] >>]_vars

\* C7: at most one CreateMLCEngine call is in flight.
C7_SingleLoadInFlight ==
    Cardinality({ id \in DOMAIN loads : loads[id].state = "loading" }) <= 1

\* C8: a run ended by an AbortError was aborted by stop(), has raised no alert,
\* keeps the content merged into its placeholder, and leaves the token slot empty;
\* the catch and finally steps leave the history unchanged and clear `generating`.
C8_CancelIsNotAFailure ==
    /\ [](\A i \in DOMAIN reqs : reqs[i].phase = "Cancelled" =>
            /\ reqs[i].aborted
            /\ reqs[i].alerts = 0
            /\ PairHolds(i)
            /\ abortRef = NoController)
    /\ [][(\E i \in DOMAIN reqs' : reqs'[i].phase = "Cancelled") => messages' = messages]_vars
    /\ [][FinallyOf("Cancelled") =>
            /\ messages' = messages
            /\ ~generating' /\ reqs' = <<>> /\ abortRef' = NoController]_vars

\* a run cancelled after a non-empty delta was merged
C8_Witness ==
    \E i \in DOMAIN reqs :
        /\ reqs[i].phase = "Cancelled"
        /\ PlaceholderOf(i).content # <<>>

\* a run has left its try block (completed, cancelled or failed)
RequestLeftTry == \E i \in DOMAIN reqs : reqs[i].phase \in TerminalPhases

\* C9: phases only move Requested -> Streaming -> terminal (or Requested ->
\* terminal when creation rejects), and whenever a run has terminated, in any of
\* the three ways, the session becomes idle again and accepts a send.
C9_ReturnsToIdle ==
    /\ [][\A i \in DOMAIN reqs :
            (Len(reqs') = Len(reqs) /\ reqs'[i].phase # reqs[i].phase) =>
                \/ reqs[i].phase = "Requested" /\ reqs'[i].phase = "Streaming"
                \/ reqs[i].phase \in ActivePhases /\ reqs'[i].phase \in TerminalPhases]_vars
    /\ \A phase \in TerminalPhases :
          (\E i \in DOMAIN reqs : reqs[i].phase = phase)
              ~> (~generating /\ reqs = <<>> /\ SendAccepted)

\* the session is idle again after a run that was not cancelled has returned
C9_Witness ==
    /\ ~generating /\ reqs = <<>> /\ SendAccepted
    /\ abortRef = StaleController
    /\ Len(messages) = 2

\* C10: a send() whose text is blank changes neither the history, the request
\* slot, the token nor the engine lifecycle.
C10_BlankSendIsNoOp ==
    [][(Send /\ Trim(input) = <<>>) =>
         UNCHANGED << messages, reqs, generating, abortRef, engine, loadingModel, loads >>]_vars

\* C11: the history is cleared only while no run is in flight and `generating` is
\* false, so every run in flight still has its user message and its placeholder
\* in the history, holding exactly the deltas that run delivered.
C11_ResetOnlyWhenIdle ==
    /\ [][(messages # <<>> /\ messages' = <<>>) => (reqs = <<>> /\ ~generating)]_vars
    /\ [](\A i \in DOMAIN reqs : PairHolds(i))

\* the history was cleared after a run had returned
C11_Witness ==
    /\ messages = <<>>
    /\ abortRef = StaleController
    /\ reqs = <<>>

\* C12: when a load has failed, it has alerted exactly once, and the return of
\* its initEngine call leaves the engine neither ready nor loading (no engine, no
\* load in flight, loadingModel false), appends no message and starts no request.
C12_LoadFailureLeavesUninitialized ==
    [][\A id \in DOMAIN loads :
         (loads[id].state = "failed" /\ Len(loads') < Len(loads)) =>
            /\ loads[id].alerts = 1
            /\ engine' = NoEngine
            /\ ~loadingModel'
            /\ loads' = <<>>
            /\ messages' = messages
            /\ reqs' = reqs]_vars

IsPrefix(a, b) == Len(a) <= Len(b) /\ SubSeq(b, 1, Len(a)) = a

\* an accepted send: one user message and one empty assistant message are appended
AppendsPair ==
    /\ Len(reqs') = Len(reqs) + 1
    /\ Len(messages') = Len(messages) + 2
    /\ SubSeq(messages', 1, Len(messages)) = messages
    /\ messages'[Len(messages) + 1].role = "user"
    /\ messages'[Len(messages) + 2] = [role |-> "assistant", content |-> <<>>]

\* a delta: the content of the last message, the placeholder of a streaming run, grows
ExtendsPlaceholder ==
    /\ messages # <<>>
    /\ Len(messages') = Len(messages)
    /\ SubSeq(messages', 1, Len(messages) - 1) = SubSeq(messages, 1, Len(messages) - 1)
    /\ messages[Len(messages)].role = "assistant"
    /\ messages'[Len(messages)].role = "assistant"
    /\ IsPrefix(messages[Len(messages)].content, messages'[Len(messages)].content)
    /\ \E i \in DOMAIN reqs :
          reqs[i].phase = "Streaming" /\ reqs[i].placeholder = Len(messages)

\* C15: every change of the history is the append of a user message and an empty
\* assistant message by an accepted send, the extension of the content of the last
\* message while it is the placeholder of a streaming run, or a reset to empty.
C15_HistoryChanges ==
    [][messages' # messages =>
         (AppendsPair \/ ExtendsPlaceholder \/ messages' = <<>>)]_vars

\* a second turn whose placeholder has received text
C15_Witness ==
    /\ Len(messages) = 4
    /\ messages[4].content # <<>>
    /\ \E i \in DOMAIN reqs : reqs[i].phase = "Streaming"

\* C16: the token slot is empty whenever no run is in flight.
C16_TokenSlotEmptyWhenIdle ==
    reqs = <<>> => abortRef = NoController

NonPolicy(h) == SelectSeq(h, LAMBDA m : m.role # "system")

AlternatesFromUser(s) ==
    \A k \in DOMAIN s : s[k].role = (IF k % 2 = 1 THEN "user" ELSE "assistant")

\* C18: the history has even length and its roles alternate user, assistant; the
\* non-policy part of a request alternates too, starts with a user message and
\* ends with the user message that request appended.
C18_RolesAlternate ==
    /\ Len(messages) % 2 = 0
    /\ AlternatesFromUser(messages)
    /\ \A i \in DOMAIN reqs : reqs[i].phase = "Requested" =>
          LET h == NonPolicy(reqs[i].history)
          IN  /\ AlternatesFromUser(h)
              /\ h[1].role = "user"
              /\ h[Len(h)] = messages[reqs[i].placeholder - 1]
              /\ h[Len(h)].role = "user"

\* a request issued after an earlier turn
C18_Witness ==
    \E i \in DOMAIN reqs :
        /\ reqs[i].phase = "Requested"
        /\ Len(NonPolicy(reqs[i].history)) = 3
        /\ Len(messages) = 4

\* C17: the model named in a generation request is the model the engine the
\* request goes to was created with.
C17_RequestModelIsEngineModel ==
    [][Len(reqs') = Len(reqs) + 1 => reqs'[Len(reqs')].model = engineModel]_vars

ValidTemperature(v) == v.t = "number" /\ v.tenths >= 0 /\ v.tenths <= 20

ValidMaxTokens(v) ==
    v.t = "number" /\ v.tenths % 10 = 0 /\ v.tenths >= 640 /\ v.tenths <= 40960

\* the stored entry of a key is missing or is no JSON text
EntryUnusable(key) == storage[key] = NoEntry \/ ~JSONParse(storage[key][1]).ok

\* a fresh session is constructed
Reloads == \E okT \in BOOLEAN, okM \in BOOLEAN : ReloadSession(okT, okM)

\* C13 (the two sampling parameters): temperature is always a number in [0, 2]
\* and maxTokens an integer in [64, 4096], and a session constructed over a
\* missing or corrupt entry takes the default of that field (0.6, 512).
C13_ConfigAlwaysValid ==
    /\ [](ValidTemperature(temperature) /\ ValidMaxTokens(maxTokens))
    /\ [][Reloads =>
            /\ EntryUnusable("temperature") => temperature' = DefaultTemperature
            /\ EntryUnusable("maxTokens") => maxTokens' = DefaultMaxTokens]_vars

\* C14: a session constructed over the backing store takes, for every field
\* whose current value is the one persisted, exactly that value, whatever the
\* entries of the other fields are.
C14_ConfigRoundTrip ==
    [][Reloads =>
        \A key \in ConfigKeys :
            storage[key] = Entry(JSONStringify(StateOf(key))) => StateOf(key)' = StateOf(key)]_vars

====
